---- MODULE Spec2Model ----
(***************************************************************************)
(* Model of knowledge_pipeline                                             *)
(* (src/kolosal_backend/pipeline/knowledge_pipeline.py).                   *)
(*                                                                         *)
(* The function is one sequential control flow; pc is its position.  The   *)
(* two polars frames are modelled as a column list plus a list of rows (a  *)
(* row maps each column name to a cell).  Column dtypes are not modelled:  *)
(* an empty python list gives a Null-typed column, which polars casts to   *)
(* the typed column it is appended to.                                     *)
(*                                                                         *)
(* The collaborators (generate_conversation_starter,                       *)
(* generate_conversations_response, comparison_score,                      *)
(* build_chat_histories, generate_next_conversation) live in modules that  *)
(* are not part of the source at hand; they are modelled from their        *)
(* contracts.  The variable contract says whether they honour the          *)
(* "same length as the input" part of the contract (Spec) or may return    *)
(* arrays of another length (SpecUnchecked).  SpecFailing adds the runs in  *)
(* which a model call raises, SpecFair the fairness of sequential          *)
(* execution, and SpecTwoRuns a second run in lockstep that is given other *)
(* scores.                                                                 *)
(***************************************************************************)
EXTENDS Integers, Sequences, FiniteSets, TLC

\* ---------------------------------------------------------------- bounds
MaxDocs == 2
MaxStarters == 2
MaxRounds == 2

\* ---------------------------------------------------------------- values
\* A text cell.  Every text has the same shape, so that any two texts can be
\* compared: kind says what it is, model which handle produced it, r the
\* round (for a starter: the number of its document), idx the position in
\* the batch (or the document number), ctx the track of the responses a
\* follow-up question was proposed from.
Txt(kind, model, r, idx, ctx) ==
    [kind |-> kind, model |-> model, r |-> r, idx |-> idx, ctx |-> ctx]

Doc(j) == Txt("document", "-", 0, j, "-")

NoText == Txt("null", "-", 0, 0, "-")

Turn(role, content) == [role |-> role, content |-> content]

Range(s) == {s[k] : k \in 1..Len(s)}

MinOf(S) == CHOOSE x \in S : \A y \in S : x <= y

\* All sequences without repetition over S of length at most n.
RECURSIVE DistinctSeqs(_, _)
DistinctSeqs(S, n) ==
    IF n = 0 THEN {<<>>}
    ELSE LET shorter == DistinctSeqs(S, n - 1)
         IN  shorter \cup
             UNION {{Append(s, x) : x \in S \ Range(s)} :
                    s \in {t \in shorter : Len(t) = n - 1}}

\* ---------------------------------------------------------------- frames
AugmentedColumns ==
    <<"chat_history", "document", "slm_response", "llm_response", "scores">>

TemporaryColumns == <<"chat_history", "document">>

EmptyFrame(columns) == [columns |-> columns, rows |-> <<>>]

Height(df) == Len(df.rows)

\* df[name].to_list()
ToList(df, name) == [k \in 1..Height(df) |-> df.rows[k][name]]

\* pl.DataFrame({"chat_history": histories, "document": docs}); polars
\* refuses columns of different lengths, the callers never pass such.
PlDataFrame(histories, docs) ==
    [columns |-> TemporaryColumns,
     rows |-> [k \in 1..Len(histories) |->
                 [chat_history |-> histories[k], document |-> docs[k]]]]

\* df.vstack(other) succeeds when the column names agree, in order.
CanVStack(df, other) == df.columns = other.columns

VStackReplaces(df, other) == other

VStack(df, other) == [columns |-> df.columns, rows |-> df.rows \o other.rows]

\* df.with_columns(pl.Series(name, series)) for a new column of the frame's
\* height.  A null cell is a column the row has no value for.
NullSeries(df, name, series) ==
    [columns |-> Append(df.columns, name), rows |-> df.rows]

\* As WithColumn, but a record is kept only if its score is above 1.
KeepsWellScored(df, name, series) ==
    [columns |-> Append(df.columns, name),
     rows |->
        IF name = "scores"
        THEN SelectSeq([k \in 1..Height(df) |->
                           (name :> series[k]) @@ df.rows[k]],
                       LAMBDA row : row.scores > 1)
        ELSE [k \in 1..Height(df) |-> (name :> series[k]) @@ df.rows[k]]]

WithColumn(df, name, series) ==
    [columns |-> Append(df.columns, name),
     rows |-> [k \in 1..Height(df) |-> (name :> series[k]) @@ df.rows[k]]]

\* A unit-length series given to a frame of another height is broadcast.
Broadcast(series, n) == [k \in 1..n |-> series[1]]

\* ------------------------------------------------------------ seeding data
\* [document] * len(chat_histories_document) and the frame built from it.
StarterFrameFirstOnly(chat_histories_document, document) ==
    IF chat_histories_document = <<>>
    THEN PlDataFrame(<<>>, <<>>)
    ELSE PlDataFrame(<<chat_histories_document[1]>>, <<document>>)

StarterFrame(chat_histories_document, document) ==
    PlDataFrame(chat_histories_document,
                [k \in 1..Len(chat_histories_document) |-> document])

\* ------------------------------------------------------------- expansion
\* The zip of the seven lists stops at the shortest.
ZipLen(hs, sr, lr, sq, lq, sd, ld) ==
    MinOf({Len(hs), Len(sr), Len(lr), Len(sq), Len(lq), Len(sd), Len(ld)})

SuccessorUserFirst(chat_history, response, question) ==
    chat_history \o <<Turn("user", question), Turn("assistant", response)>>

Successor(chat_history, response, question) ==
    chat_history \o <<Turn("assistant", response), Turn("user", question)>>

GeneratedSlmOnly(hs, sr, lr, sq, lq, sd, ld) ==
    [k \in 1..ZipLen(hs, sr, lr, sq, lq, sd, ld) |->
        Successor(hs[k], sr[k], sq[k])]

GeneratedChatHistories(hs, sr, lr, sq, lq, sd, ld) ==
    [k \in 1..(2 * ZipLen(hs, sr, lr, sq, lq, sd, ld)) |->
        IF k % 2 = 1
        THEN Successor(hs[(k + 1) \div 2], sr[(k + 1) \div 2], sq[(k + 1) \div 2])
        ELSE Successor(hs[k \div 2], lr[k \div 2], lq[k \div 2])]

GeneratedQuestionsAsDocuments(hs, sr, lr, sq, lq, sd, ld) ==
    [k \in 1..(2 * ZipLen(hs, sr, lr, sq, lq, sd, ld)) |->
        IF k % 2 = 1 THEN sq[(k + 1) \div 2] ELSE lq[k \div 2]]

GeneratedDocumentsSwapped(hs, sr, lr, sq, lq, sd, ld) ==
    [k \in 1..(2 * ZipLen(hs, sr, lr, sq, lq, sd, ld)) |->
        IF k % 2 = 1 THEN ld[(k + 1) \div 2] ELSE sd[k \div 2]]

GeneratedChatDocuments(hs, sr, lr, sq, lq, sd, ld) ==
    [k \in 1..(2 * ZipLen(hs, sr, lr, sq, lq, sd, ld)) |->
        IF k % 2 = 1 THEN sd[(k + 1) \div 2] ELSE ld[k \div 2]]

\* --------------------------------------------------------- return value
ReturnsResultSet(temporary, augmented) == augmented

ReturnValue(temporary, augmented) == temporary

\* ---------------------------------------------------------- collaborators
\* The offsets of the score patterns comparison_score may return.
ScoreOffsets == {0, 1}

\* generate_conversation_starter: n opening questions about document j, each a
\* chat history of one user turn.
ConversationStarters(j, n) ==
    [k \in 1..n |-> <<Turn("user", Txt("starter", "llm", j, k, "-"))>>]

\* build_chat_histories: one model-ready instruction per (history, document).
BuildChatHistories(docs, chat_histories) ==
    [k \in 1..Len(chat_histories) |->
        [chat_history |-> chat_histories[k], document |-> docs[k]]]

\* generate_conversations_response: n responses of the given model.
Responses(model, r, n) ==
    [k \in 1..n |-> Txt("response", model, r, k, "-")]

\* comparison_score: n integer scores.
Scores(n, v) == [k \in 1..n |-> (k + v) % 3]

\* generate_next_conversation: n follow-up questions, each proposed from the
\* response at its position (ctx names the model that gave that response, or
\* "-" past the end of the responses), and n documents of the bank.
NextQuestions(model, r, n, responses) ==
    [k \in 1..n |->
        Txt("question", model, r, k,
            IF k <= Len(responses) THEN responses[k].model ELSE "-")]

NextDocuments(bank, n, v) ==
    [k \in 1..n |-> IF bank = <<>> THEN NoText
                    ELSE bank[((k + v) % Len(bank)) + 1]]

\* The lengths a collaborator may return for a batch of n: the batch size,
\* or, where it breaks the contract on a batch that is not empty, one less or
\* one more.
ReturnedLengths(faulty, n) ==
    IF faulty THEN (IF n > 0 THEN {n - 1, n + 1} ELSE {}) ELSE {n}

\* A collaborator call: the function, the model handle, the document (of a
\* starter call), the batch size (of a starter call: the number requested),
\* the model whose responses were passed as context, and the length returned.
Call(fn, model, doc, n, ctx, ret) ==
    [fn |-> fn, model |-> model, doc |-> doc, n |-> n, ctx |-> ctx, ret |-> ret]

\* ------------------------------------------------------------------ state
VARIABLES
    documents,                 \* instruction.documents
    conversation_starter_count,\* instruction.conversation_starter_count
    max_conversations,         \* instruction.max_conversations
    contract,                  \* "kept", "breakable" or "broken"
    pc,                        \* position in knowledge_pipeline
    d,                         \* index of the document being seeded
    i,                         \* the round, 0-based
    temproary_augmented_data,  \* the Working Set
    augmented_data,            \* the Result Set
    built_chat_histories,
    slm_responses,
    llm_responses,
    scores,
    slm_questions,
    slm_documents,
    llm_questions,
    llm_documents,
    generated_chat_histories,
    generated_chat_documents,
    returned,                  \* the value returned, once pc = "done"
    error,                     \* the exception that ended the run, or "none"
    calls,                     \* the collaborator calls made so far
    entered,                   \* the Working Set at the start of each round
    second                     \* a second run, given other scores

inputs == <<documents, conversation_starter_count, max_conversations>>

frames == <<temproary_augmented_data, augmented_data>>

locals == <<built_chat_histories, slm_responses, llm_responses, scores,
            slm_questions, slm_documents, llm_questions, llm_documents,
            generated_chat_histories, generated_chat_documents>>

vars == <<inputs, contract, pc, d, i, frames, locals, returned, error, calls,
          entered, second>>

NotReturned == [columns |-> <<>>, rows |-> <<>>]

\* The second run, about to start: its two frames, its scores, its generated
\* lists and the value it returns.  It is given the documents, the starters,
\* the responses and the continuations of the first run, and scores of its
\* own.  Where on is FALSE there is no second run.
SecondRun(on) ==
    [on |-> on,
     temproary_augmented_data |-> EmptyFrame(TemporaryColumns),
     augmented_data |-> EmptyFrame(AugmentedColumns),
     scores |-> <<>>,
     generated_chat_histories |-> <<>>,
     generated_chat_documents |-> <<>>,
     returned |-> NotReturned]

InitWith(c, two) ==
    /\ documents \in DistinctSeqs({Doc(j) : j \in 1..MaxDocs}, MaxDocs)
    /\ conversation_starter_count \in 1..MaxStarters
    /\ max_conversations \in 0..MaxRounds
    /\ contract = c
    /\ pc = "seed"
    /\ d = 1
    /\ i = 0
    /\ augmented_data = EmptyFrame(AugmentedColumns)
    /\ temproary_augmented_data = EmptyFrame(TemporaryColumns)
    /\ built_chat_histories = <<>>
    /\ slm_responses = <<>>
    /\ llm_responses = <<>>
    /\ scores = <<>>
    /\ slm_questions = <<>>
    /\ slm_documents = <<>>
    /\ llm_questions = <<>>
    /\ llm_documents = <<>>
    /\ generated_chat_histories = <<>>
    /\ generated_chat_documents = <<>>
    /\ returned = NotReturned
    /\ error = "none"
    /\ calls = <<>>
    /\ entered = <<>>
    /\ second = SecondRun(two)

Init == InitWith("kept", FALSE)

InitUnchecked == InitWith("breakable", FALSE)

InitTwoRuns == InitWith("kept", TRUE)

\* The second run after a step, where there is one.
SecondAfter(next) == IF second.on THEN next ELSE second

\* A collaborator that breaks the length contract uses up the allowance: at
\* most one call of a run returns an array of another length.
ContractAfter(f) == IF f THEN "broken" ELSE contract

\* ---------------------------------------------------------------- seeding
\* One iteration of the loop over instruction.documents: the starter call
\* may return fewer histories than requested.
SeedDocument ==
    /\ pc = "seed"
    /\ d <= Len(documents)
    /\ \E n \in 0..conversation_starter_count :
         LET chat_histories_document == ConversationStarters(documents[d].idx, n)
             frame == StarterFrame(chat_histories_document, documents[d])
         IN  /\ calls' = Append(calls,
                   Call("generate_conversation_starter", "llm", documents[d],
                        conversation_starter_count, "-", n))
             /\ IF CanVStack(temproary_augmented_data, frame)
                THEN /\ temproary_augmented_data' =
                            VStack(temproary_augmented_data, frame)
                     /\ second' = SecondAfter(
                            [second EXCEPT !.temproary_augmented_data =
                                VStack(@, frame)])
                     /\ d' = d + 1
                     /\ UNCHANGED <<pc, error>>
                ELSE /\ pc' = "error"
                     /\ error' = "ShapeError"
                     /\ UNCHANGED <<temproary_augmented_data, d, second>>
    /\ UNCHANGED <<inputs, contract, i, augmented_data, locals, returned,
                   entered>>

\* The documents are exhausted: on to the round loop.
SeedDone ==
    /\ pc = "seed"
    /\ d > Len(documents)
    /\ pc' = "loop"
    /\ UNCHANGED <<second, inputs, contract, d, i, frames, locals, returned, error,
                   calls, entered>>

\* --------------------------------------------------------------- the loop
\* range(instruction.max_conversations) has another value for i.
LoopRunsOnceMore(round, rounds) == round <= rounds

LoopContinues(round, rounds) == round < rounds

\* for i in range(instruction.max_conversations)
LoopHead ==
    /\ pc = "loop"
    /\ IF LoopContinues(i, max_conversations)
       THEN /\ pc' = "build"
            /\ entered' = Append(entered, temproary_augmented_data)
       ELSE /\ pc' = "return"
            /\ UNCHANGED entered
    /\ UNCHANGED <<second, inputs, contract, d, i, frames, locals, returned, error,
                   calls>>

\* Step 2, first call: build_chat_histories.
Build ==
    /\ pc = "build"
    /\ built_chat_histories' =
          BuildChatHistories(ToList(temproary_augmented_data, "document"),
                             ToList(temproary_augmented_data, "chat_history"))
    /\ calls' = Append(calls,
          Call("build_chat_histories", "-", NoText,
               Height(temproary_augmented_data), "-",
               Height(temproary_augmented_data)))
    /\ pc' = "slm"
    /\ UNCHANGED <<second, inputs, contract, d, i, frames, slm_responses,
                   llm_responses, scores, slm_questions, slm_documents,
                   llm_questions, llm_documents, generated_chat_histories,
                   generated_chat_documents, returned, error, entered>>

\* generate_conversations_response(instruction.slm_model, ...)
GenerateSlm ==
    /\ pc = "slm"
    /\ \E f \in BOOLEAN :
         /\ f => contract = "breakable"
         /\ \E n \in ReturnedLengths(f, Len(built_chat_histories)) :
              /\ slm_responses' = Responses("slm", i, n)
              /\ calls' = Append(calls,
                    Call("generate_conversations_response", "slm", NoText,
                         Len(built_chat_histories), "-", n))
         /\ contract' = ContractAfter(f)
    /\ pc' = "llm"
    /\ UNCHANGED <<second, inputs, d, i, frames, built_chat_histories,
                   llm_responses, scores, slm_questions, slm_documents,
                   llm_questions, llm_documents, generated_chat_histories,
                   generated_chat_documents, returned, error, entered>>

\* generate_conversations_response(instruction.llm_model, ...)
GenerateLlm ==
    /\ pc = "llm"
    /\ \E f \in BOOLEAN :
         /\ f => contract = "breakable"
         /\ \E n \in ReturnedLengths(f, Len(built_chat_histories)) :
              /\ llm_responses' = Responses("llm", i, n)
              /\ calls' = Append(calls,
                    Call("generate_conversations_response", "llm", NoText,
                         Len(built_chat_histories), "-", n))
         /\ contract' = ContractAfter(f)
    /\ pc' = "with_responses"
    /\ UNCHANGED <<second, inputs, d, i, frames, built_chat_histories,
                   slm_responses, scores, slm_questions, slm_documents,
                   llm_questions, llm_documents, generated_chat_histories,
                   generated_chat_documents, returned, error, entered>>

\* with_columns accepts a series of the frame's height and, where polars
\* broadcasts, a series of length one.
SeriesFits(df, series, broadcasts) ==
    \/ Len(series) = Height(df)
    \/ broadcasts /\ Len(series) = 1

Fitted(df, series) ==
    IF Len(series) = Height(df) THEN series ELSE Broadcast(series, Height(df))

\* temproary_augmented_data.with_columns(slm_response, llm_response)
WithResponses ==
    /\ pc = "with_responses"
    /\ \E broadcasts \in BOOLEAN :
         IF /\ SeriesFits(temproary_augmented_data, slm_responses, broadcasts)
            /\ SeriesFits(temproary_augmented_data, llm_responses, broadcasts)
         THEN /\ temproary_augmented_data' =
                    WithColumn(
                        WithColumn(temproary_augmented_data, "slm_response",
                                   Fitted(temproary_augmented_data, slm_responses)),
                        "llm_response",
                        Fitted(temproary_augmented_data, llm_responses))
              /\ second' = SecondAfter(
                    [second EXCEPT !.temproary_augmented_data =
                        WithColumn(
                            WithColumn(@, "slm_response",
                                       Fitted(@, slm_responses)),
                            "llm_response", Fitted(@, llm_responses))])
              /\ pc' = "score"
              /\ UNCHANGED error
         ELSE /\ pc' = "error"
              /\ error' = "ShapeError"
              /\ UNCHANGED <<temproary_augmented_data, second>>
    /\ UNCHANGED <<inputs, contract, d, i, augmented_data, locals, returned,
                   calls, entered>>

\* Step 3: comparison_score(llm=instruction.llm_model, ...)
Score ==
    /\ pc = "score"
    /\ \E f \in BOOLEAN, v \in ScoreOffsets :
         /\ f => contract = "breakable"
         /\ \E n \in ReturnedLengths(f, Height(temproary_augmented_data)) :
              /\ scores' = Scores(n, v)
              /\ \E w \in (IF second.on THEN ScoreOffsets ELSE {v}) :
                    second' = SecondAfter(
                        [second EXCEPT !.scores =
                            Scores(Height(second.temproary_augmented_data), w)])
              /\ calls' = Append(calls,
                    Call("comparison_score", "llm", NoText,
                         Height(temproary_augmented_data), "-", n))
         /\ contract' = ContractAfter(f)
    /\ pc' = "with_scores"
    /\ UNCHANGED <<inputs, d, i, frames, built_chat_histories,
                   slm_responses, llm_responses, slm_questions, slm_documents,
                   llm_questions, llm_documents, generated_chat_histories,
                   generated_chat_documents, returned, error, entered>>

\* temproary_augmented_data.with_columns(scores)
WithScores ==
    /\ pc = "with_scores"
    /\ \E broadcasts \in BOOLEAN :
         IF SeriesFits(temproary_augmented_data, scores, broadcasts)
         THEN /\ temproary_augmented_data' =
                    WithColumn(temproary_augmented_data, "scores",
                               Fitted(temproary_augmented_data, scores))
              /\ second' = SecondAfter(
                    [second EXCEPT !.temproary_augmented_data =
                        WithColumn(@, "scores", Fitted(@, second.scores))])
              /\ pc' = "next_slm"
              /\ UNCHANGED error
         ELSE /\ pc' = "error"
              /\ error' = "ShapeError"
              /\ UNCHANGED <<temproary_augmented_data, second>>
    /\ UNCHANGED <<inputs, contract, d, i, augmented_data, locals, returned,
                   calls, entered>>

\* generate_next_conversation picks, for every conversation of the batch, the
\* document of the bank at its position or the one after it.
Rotations == IF Len(documents) < 2 THEN {0} ELSE {0, 1}

\* The model handle each continuation call is given.
SlmTrackModel == "llm"

LlmTrackModel == "slm"

\* The responses each continuation call is given as context.
SlmTrackResponses(slm, llm) == slm

LlmTrackGivenLlmResponses(slm, llm) == llm

LlmTrackResponses(slm, llm) == slm

\* The model that gave the responses a continuation call was passed.
ContextOf(responses) ==
    IF responses = <<>> THEN "-" ELSE responses[1].model

\* Step 4, SLM track: generate_next_conversation(llm=instruction.llm_model,
\* responses=slm_responses, ...)
NextSlm ==
    /\ pc = "next_slm"
    /\ \E f \in BOOLEAN, v \in Rotations :
         /\ f => contract = "breakable"
         /\ \E n \in ReturnedLengths(f, Height(temproary_augmented_data)) :
              /\ slm_questions' =
                    NextQuestions(SlmTrackModel, i, n,
                        SlmTrackResponses(slm_responses, llm_responses))
              /\ slm_documents' = NextDocuments(documents, n, v)
              /\ calls' = Append(calls,
                    Call("generate_next_conversation", SlmTrackModel, NoText,
                         Height(temproary_augmented_data),
                         ContextOf(SlmTrackResponses(slm_responses,
                                                     llm_responses)), n))
         /\ contract' = ContractAfter(f)
    /\ pc' = "next_llm"
    /\ UNCHANGED <<second, inputs, d, i, frames, built_chat_histories,
                   slm_responses, llm_responses, scores,
                   llm_questions, llm_documents, generated_chat_histories,
                   generated_chat_documents, returned, error, entered>>

\* Step 4, LLM track: generate_next_conversation(llm=instruction.slm_model,
\* responses=slm_responses, ...)
NextLlm ==
    /\ pc = "next_llm"
    /\ \E f \in BOOLEAN, v \in Rotations :
         /\ f => contract = "breakable"
         /\ \E n \in ReturnedLengths(f, Height(temproary_augmented_data)) :
              /\ llm_questions' =
                    NextQuestions(LlmTrackModel, i, n,
                        LlmTrackResponses(slm_responses, llm_responses))
              /\ llm_documents' = NextDocuments(documents, n, v)
              /\ calls' = Append(calls,
                    Call("generate_next_conversation", LlmTrackModel, NoText,
                         Height(temproary_augmented_data),
                         ContextOf(LlmTrackResponses(slm_responses,
                                                     llm_responses)), n))
         /\ contract' = ContractAfter(f)
    /\ pc' = "zip"
    /\ UNCHANGED <<second, inputs, d, i, frames, built_chat_histories,
                   slm_responses, llm_responses, scores,
                   slm_questions, slm_documents, generated_chat_histories,
                   generated_chat_documents, returned, error, entered>>

\* Step 5: the zip loop that builds the successor histories and documents.
Expand ==
    /\ pc = "zip"
    /\ generated_chat_histories' =
          GeneratedChatHistories(
              ToList(temproary_augmented_data, "chat_history"),
              slm_responses, llm_responses, slm_questions, llm_questions,
              slm_documents, llm_documents)
    /\ generated_chat_documents' =
          GeneratedChatDocuments(
              ToList(temproary_augmented_data, "chat_history"),
              slm_responses, llm_responses, slm_questions, llm_questions,
              slm_documents, llm_documents)
    /\ second' = SecondAfter(
          [second EXCEPT
             !.generated_chat_histories =
                GeneratedChatHistories(
                    ToList(second.temproary_augmented_data, "chat_history"),
                    slm_responses, llm_responses, slm_questions,
                    llm_questions, slm_documents, llm_documents),
             !.generated_chat_documents =
                GeneratedChatDocuments(
                    ToList(second.temproary_augmented_data, "chat_history"),
                    slm_responses, llm_responses, slm_questions,
                    llm_questions, slm_documents, llm_documents)])
    /\ pc' = "save"
    /\ UNCHANGED <<inputs, contract, d, i, frames, built_chat_histories,
                   slm_responses, llm_responses, scores, slm_questions,
                   slm_documents, llm_questions, llm_documents, returned,
                   error, calls, entered>>

\* "Save the augmented data": the vstack onto the Result Set and the new
\* Working Set.
Save ==
    /\ pc = "save"
    /\ IF CanVStack(augmented_data, temproary_augmented_data)
       THEN /\ augmented_data' = VStack(augmented_data, temproary_augmented_data)
            /\ temproary_augmented_data' =
                  PlDataFrame(generated_chat_histories, generated_chat_documents)
            /\ second' = SecondAfter(
                  [second EXCEPT
                     !.augmented_data =
                        VStack(@, second.temproary_augmented_data),
                     !.temproary_augmented_data =
                        PlDataFrame(second.generated_chat_histories,
                                    second.generated_chat_documents)])
            /\ i' = i + 1
            /\ pc' = "loop"
            /\ UNCHANGED error
       ELSE /\ pc' = "error"
            /\ error' = "ShapeError"
            /\ UNCHANGED <<frames, i, second>>
    /\ UNCHANGED <<inputs, contract, d, locals, returned, calls, entered>>

\* return temproary_augmented_data
Return ==
    /\ pc = "return"
    /\ returned' = ReturnValue(temproary_augmented_data, augmented_data)
    /\ second' = SecondAfter(
          [second EXCEPT !.returned =
              ReturnValue(second.temproary_augmented_data,
                          second.augmented_data)])
    /\ pc' = "done"
    /\ UNCHANGED <<inputs, contract, d, i, frames, locals, error, calls,
                   entered>>

\* ---------------------------------------------------------------- failure
\* The call the run is about to make at a position: function and model handle.
CallAt(at) ==
    CASE at = "seed" -> <<"generate_conversation_starter", "llm">>
      [] at = "slm" -> <<"generate_conversations_response", "slm">>
      [] at = "llm" -> <<"generate_conversations_response", "llm">>
      [] at = "score" -> <<"comparison_score", "llm">>
      [] at = "next_slm" -> <<"generate_next_conversation", "llm">>
      [] at = "next_llm" -> <<"generate_next_conversation", "slm">>

\* The length recorded for a call that raised instead of returning.
Raised == -1

\* Where the run goes when a call raises: no statement of the function is
\* inside a try, so the exception leaves the function.
RetriesAfterFailure(at) == at

AfterFailure(at) == "error"

\* A model call (starter, response, score or continuation call) raises.
CollaboratorFails ==
    /\ pc \in {"seed", "slm", "llm", "score", "next_slm", "next_llm"}
    /\ pc = "seed" => d <= Len(documents)
    /\ calls' = Append(calls,
          Call(CallAt(pc)[1], CallAt(pc)[2],
               IF pc = "seed" THEN documents[d] ELSE NoText,
               IF pc = "seed" THEN conversation_starter_count
               ELSE Height(temproary_augmented_data),
               "-", Raised))
    /\ error' = "GenerationError"
    /\ pc' = AfterFailure(pc)
    /\ UNCHANGED <<second, inputs, contract, d, i, frames, locals, returned, entered>>

Next ==
    \/ SeedDocument
    \/ SeedDone
    \/ LoopHead
    \/ Build
    \/ GenerateSlm
    \/ GenerateLlm
    \/ WithResponses
    \/ Score
    \/ WithScores
    \/ NextSlm
    \/ NextLlm
    \/ Expand
    \/ Save
    \/ Return

Spec == Init /\ [][Next]_vars

SpecUnchecked == InitUnchecked /\ [][Next]_vars

NextFailing == Next \/ CollaboratorFails

\* The runs in which any model call may raise.
SpecFailing == Init /\ [][NextFailing]_vars

\* Two runs on the same input whose collaborators return the same, except
\* the scores.
SpecTwoRuns == InitTwoRuns /\ [][Next]_vars

\* The function is sequential code that keeps running: whenever a step is
\* possible, a step is taken.
SpecFair == Init /\ [][Next]_vars /\ WF_vars(Next)

\* ================================================================= claims
\* The positions at which i rounds are complete and the next has not started
\* to change the Working Set.
BetweenRounds == pc \in {"loop", "return", "done"}

\* The Working Set as it entered the round completed last.
LastEntered == entered[i]

\* C1: in every round the Working Set produced by the expansion step has
\* exactly twice as many records as the Working Set that entered the round.
C1_ExpansionDoubles ==
    /\ \A r \in 1..(Len(entered) - 1) :
          Height(entered[r + 1]) = 2 * Height(entered[r])
    /\ (BetweenRounds /\ i >= 1) =>
          Height(temproary_augmented_data) = 2 * Height(LastEntered)
    /\ pc = "save" =>
          /\ Len(generated_chat_histories) = 2 * Height(temproary_augmented_data)
          /\ Len(generated_chat_documents) = 2 * Height(temproary_augmented_data)

C1_Witness ==
    /\ pc = "loop"
    /\ i = 2
    /\ Height(entered[1]) = 2
    /\ Height(entered[2]) = 4
    /\ Height(temproary_augmented_data) = 8

\* child is parent plus an assistant turn and then a user turn.
TwoTurnsLonger(child, parent) ==
    /\ Len(child) = Len(parent) + 2
    /\ child[Len(parent) + 1].role = "assistant"
    /\ child[Len(parent) + 2].role = "user"

\* C2: each of the two successor chat histories of a conversation is exactly
\* 2 turns longer than the parent history, and the two added turns have the
\* roles assistant, then user.
C2_TwoTurnsPerRound ==
    /\ pc = "save" =>
          \A k \in 1..Len(generated_chat_histories) :
              TwoTurnsLonger(
                  generated_chat_histories[k],
                  temproary_augmented_data.rows[(k + 1) \div 2].chat_history)
    /\ (BetweenRounds /\ i >= 1) =>
          \A k \in 1..Height(temproary_augmented_data) :
              /\ (k + 1) \div 2 <= Height(LastEntered)
              /\ TwoTurnsLonger(
                     temproary_augmented_data.rows[k].chat_history,
                     LastEntered.rows[(k + 1) \div 2].chat_history)

C2_Witness ==
    /\ pc = "loop"
    /\ i = 2
    /\ Height(temproary_augmented_data) >= 4
    /\ \A k \in 1..Height(temproary_augmented_data) :
          Len(temproary_augmented_data.rows[k].chat_history) = 5

\* The (chat_history, document) part of the rows of a frame.
WorkingPart(rows) ==
    [k \in 1..Len(rows) |->
        [chat_history |-> rows[k].chat_history, document |-> rows[k].document]]

\* The rows of the Working Sets that entered rounds 1..n, in order.
RECURSIVE EnteredRows(_)
EnteredRows(n) ==
    IF n = 0 THEN <<>> ELSE EnteredRows(n - 1) \o entered[n].rows

IsPrefix(s, t) == Len(s) <= Len(t) /\ SubSeq(t, 1, Len(s)) = s

\* C3: after N completed rounds the Result Set holds exactly the records of
\* the Working Sets of rounds 0..N-1, each once and in order, and a step never
\* removes, duplicates or alters a record that is already in the Result Set.
C3_ResultSetAppendOnly ==
    /\ [](/\ Height(augmented_data) = Len(EnteredRows(i))
          /\ WorkingPart(augmented_data.rows) = EnteredRows(i))
    /\ [][IsPrefix(augmented_data.rows, augmented_data'.rows)]_vars

C3_Witness ==
    /\ pc = "loop"
    /\ i = 2
    /\ Height(entered[1]) = 2
    /\ Height(augmented_data) = 6

\* C4: the document of every Working Set record is a document of the bank.
C4_DocumentsFromBank ==
    \A k \in 1..Height(temproary_augmented_data) :
        temproary_augmented_data.rows[k].document \in Range(documents)

C4_Witness ==
    /\ pc = "loop"
    /\ i = 2
    /\ Len(documents) = 2
    /\ Height(temproary_augmented_data) >= 4
    /\ \E k \in 1..Height(temproary_augmented_data) :
          temproary_augmented_data.rows[k].document # LastEntered.rows[(k + 1) \div 2].document

C6_ReturnsFiveColumns ==
    pc = "done" => Range(AugmentedColumns) \subseteq Range(returned.columns)

\* C7: every record of the Result Set has its slm_response, its llm_response
\* and its score populated, by the SLM, the LLM and the scorer.
C7_ResultSetScored ==
    \A k \in 1..Height(augmented_data) :
        LET row == augmented_data.rows[k]
        IN  /\ {"slm_response", "llm_response", "scores"} \subseteq DOMAIN row
            /\ row.slm_response.kind = "response"
            /\ row.slm_response.model = "slm"
            /\ row.llm_response.kind = "response"
            /\ row.llm_response.model = "llm"
            /\ row.scores \in Int

C7_Witness ==
    /\ Height(augmented_data) >= 3
    /\ \E k \in 1..Height(augmented_data) : augmented_data.rows[k].scores = 0
    /\ \E k \in 1..Height(augmented_data) : augmented_data.rows[k].scores = 2

\* C8: once a collaborator has returned an array of another length than the
\* Working Set, the run does not complete the round: it does not get to the
\* next round or to the return.
C8_MismatchIsFatal ==
    contract = "broken" => pc \notin {"loop", "return", "done"}

RoundCalls ==
    {"generate_conversations_response", "comparison_score",
     "generate_next_conversation"}

\* C9: no generation, scoring or expansion call of a round is made on an
\* empty Working Set.
C9_EmptyDetectedBeforeLoop ==
    \A k \in 1..Len(calls) : calls[k].fn \in RoundCalls => calls[k].n > 0

StarterCalls ==
    SelectSeq(calls, LAMBDA c : c.fn = "generate_conversation_starter")

\* The records the first n documents contribute: for each document, in
\* order, one per history its starter call returned.
RECURSIVE SeededRows(_)
SeededRows(n) ==
    IF n = 0 THEN <<>>
    ELSE SeededRows(n - 1) \o
         [k \in 1..StarterCalls[n].ret |->
            [chat_history |->
                ConversationStarters(documents[n].idx, StarterCalls[n].ret)[k],
             document |-> documents[n]]]

\* C10: seeding makes one starter call per document, in document order, and
\* the seeded Working Set holds one record per returned history with the
\* source document, also when a call returns fewer than requested or none;
\* seeding raises no error.
C10_Seeding ==
    (pc = "seed" \/ (pc = "loop" /\ i = 0)) =>
       /\ Len(StarterCalls) = d - 1
       /\ StarterCalls = SubSeq(calls, 1, d - 1)
       /\ \A k \in 1..(d - 1) :
             /\ StarterCalls[k].doc = documents[k]
             /\ StarterCalls[k].n = conversation_starter_count
       /\ pc = "loop" => d - 1 = Len(documents)
       /\ temproary_augmented_data.rows = SeededRows(d - 1)
       /\ error = "none"

C10_Witness ==
    /\ pc = "loop"
    /\ i = 0
    /\ Len(documents) = 2
    /\ conversation_starter_count = 2
    /\ StarterCalls[1].ret = 0
    /\ StarterCalls[2].ret = 1
    /\ Height(temproary_augmented_data) = 1

\* The calls of the rounds, after the starter calls of the seeding.
RoundLog == SubSeq(calls, Len(StarterCalls) + 1, Len(calls))

\* The collaborator calls of one round, in order: function and model handle.
RoundPattern ==
    << <<"build_chat_histories", "-">>,
       <<"generate_conversations_response", "slm">>,
       <<"generate_conversations_response", "llm">>,
       <<"comparison_score", "llm">>,
       <<"generate_next_conversation", "llm">>,
       <<"generate_next_conversation", "slm">> >>

\* The number of calls of the current round made when the run is at pc.
CallsMadeAt(at) ==
    CASE at = "slm" -> 1
      [] at = "llm" -> 2
      [] at = "with_responses" -> 3
      [] at = "score" -> 3
      [] at = "with_scores" -> 4
      [] at = "next_slm" -> 4
      [] at = "next_llm" -> 5
      [] at = "zip" -> 6
      [] at = "save" -> 6
      [] OTHER -> 0

C11_CallOrder ==
    /\ Len(RoundLog) = 6 * i + CallsMadeAt(pc)
    /\ \A k \in 1..Len(RoundLog) :
          /\ RoundLog[k].fn = RoundPattern[((k - 1) % 6) + 1][1]
          /\ RoundLog[k].model = RoundPattern[((k - 1) % 6) + 1][2]
          /\ RoundLog[k].n = Height(entered[((k - 1) \div 6) + 1])
    /\ pc \in {"llm", "with_responses"} =>
          /\ Len(slm_responses) = Len(built_chat_histories)
          /\ built_chat_histories =
                BuildChatHistories(
                    ToList(temproary_augmented_data, "document"),
                    ToList(temproary_augmented_data, "chat_history"))
    /\ i <= max_conversations
    /\ pc \in {"return", "done"} =>
          (i = max_conversations /\ Len(entered) = max_conversations)

\* The Result Set and the records of the Working Set change only in the save
\* that follows the expansion (and, for the Working Set, in the seeding); the
\* two response calls of a round are given the same built batch.
C11_SaveAfterExpansion ==
    /\ augmented_data' # augmented_data => (pc = "save" /\ pc' = "loop")
    /\ (pc # "seed" /\ WorkingPart(temproary_augmented_data'.rows)
                         # WorkingPart(temproary_augmented_data.rows)) =>
          (pc = "save" /\ pc' = "loop")
    /\ pc \in {"slm", "llm"} => built_chat_histories' = built_chat_histories

\* C11: the loop runs exactly max_conversations rounds and then the function
\* returns; in every round the calls are build, SLM responses, LLM responses
\* (on the same built batch), scores, then the two continuation calls, and the
\* Result Set append and Working Set replacement come only after expansion.
C11_RoundsInOrder ==
    /\ []C11_CallOrder
    /\ [][C11_SaveAfterExpansion]_vars
    /\ <>(pc = "done")

C11_Witness ==
    /\ pc = "done"
    /\ max_conversations = 2
    /\ i = 2
    /\ Len(RoundLog) = 12
    /\ Height(entered[1]) >= 2

C12_Aborted ==
    /\ error # "none" =>
          /\ pc = "error"
          /\ returned = NotReturned
          /\ Height(augmented_data) = Len(EnteredRows(i))
          /\ calls[Len(calls)].ret = Raised
    /\ \A k \in 1..Len(calls) :
          calls[k].ret = Raised => (k = Len(calls) /\ pc = "error")
    /\ pc = "done" => error = "none"

C12_NothingAfterFailure ==
    error # "none" =>
       /\ calls' = calls
       /\ augmented_data' = augmented_data
       /\ temproary_augmented_data' = temproary_augmented_data
       /\ returned' = returned

\* C12: when a model call raises, the run is aborted at once: the failed call
\* is the last call made, the failing round has appended nothing to the
\* Result Set, and no table is returned.
C12_FailureAborts ==
    /\ []C12_Aborted
    /\ [][C12_NothingAfterFailure]_vars

C12_Witness ==
    /\ pc = "error"
    /\ error = "GenerationError"
    /\ i = 1
    /\ Height(augmented_data) >= 2
    /\ Len(entered) = 2
    /\ calls[Len(calls)].fn = "generate_next_conversation"
    /\ calls[Len(calls)].model = "slm"

\* The record that continues parent with a response and a question.
Continuation(parent, response, question, document) ==
    [chat_history |->
        parent \o <<[role |-> "assistant", content |-> response],
                    [role |-> "user", content |-> question]>>,
     document |-> document]

\* C14: after a round over n records, the Working Set holds at 2k-1 the
\* SLM-track continuation of record k (its history, then slm_responses[k] and
\* slm_questions[k], with slm_documents[k]) and at 2k the LLM-track one, and
\* the k-th record the round appended to the Result Set is record k with
\* slm_responses[k], llm_responses[k] and scores[k].
C14_PositionalAlignment ==
    (BetweenRounds /\ i >= 1) =>
       LET n == Height(LastEntered)
           off == Height(augmented_data) - n
       IN  /\ Height(temproary_augmented_data) = 2 * n
           /\ off >= 0
           /\ \A k \in 1..n :
                 /\ temproary_augmented_data.rows[2 * k - 1] =
                       Continuation(LastEntered.rows[k].chat_history,
                                    slm_responses[k], slm_questions[k],
                                    slm_documents[k])
                 /\ temproary_augmented_data.rows[2 * k] =
                       Continuation(LastEntered.rows[k].chat_history,
                                    llm_responses[k], llm_questions[k],
                                    llm_documents[k])
                 /\ augmented_data.rows[off + k] =
                       [chat_history |-> LastEntered.rows[k].chat_history,
                        document |-> LastEntered.rows[k].document,
                        slm_response |-> slm_responses[k],
                        llm_response |-> llm_responses[k],
                        scores |-> scores[k]]

C14_Witness ==
    /\ pc = "loop"
    /\ i = 2
    /\ Height(LastEntered) >= 2
    /\ slm_documents[1] # llm_documents[1]
    /\ slm_documents[1] # slm_documents[2]
    /\ scores[1] # scores[2]

\* C15: both continuation calls of a round are given the SLM's responses:
\* the question that follows llm_response on the LLM track was proposed from
\* the SLM's response; and the SLM-track call uses the LLM handle, the
\* LLM-track call the SLM handle.
C15_SlmResponsesForBothTracks ==
    /\ \A k \in 1..Len(RoundLog) :
          RoundLog[k].fn = "generate_next_conversation" =>
             /\ RoundLog[k].ctx = (IF RoundLog[k].n = 0 THEN "-" ELSE "slm")
             /\ RoundLog[k].model = (IF k % 6 = 5 THEN "llm" ELSE "slm")
    /\ (BetweenRounds /\ i >= 1) =>
          \A k \in 1..Height(temproary_augmented_data) :
             LET h == temproary_augmented_data.rows[k].chat_history
                 answer == h[Len(h) - 1].content
                 question == h[Len(h)].content
             IN  /\ question.kind = "question"
                 /\ question.ctx = "slm"
                 /\ answer.kind = "response"
                 /\ answer.model = (IF k % 2 = 1 THEN "slm" ELSE "llm")
                 /\ question.model = (IF k % 2 = 1 THEN "llm" ELSE "slm")

C15_Witness ==
    /\ pc = "loop"
    /\ i = 1
    /\ Height(temproary_augmented_data) = 2
    /\ LET h == temproary_augmented_data.rows[2].chat_history
       IN  /\ h[Len(h) - 1].content.model = "llm"
           /\ h[Len(h)].content.ctx = "slm"
           /\ h[Len(h)].content.model = "slm"

RECURSIVE Pow2(_)
Pow2(n) == IF n = 0 THEN 1 ELSE 2 * Pow2(n - 1)

\* The number of histories the starter calls returned, over the first n
\* documents.
RECURSIVE StartersReturned(_)
StartersReturned(n) ==
    IF n = 0 THEN 0 ELSE StartersReturned(n - 1) + StarterCalls[n].ret

====
